---- MODULE Spec2Model ----
(***************************************************************************)
(* State-machine model of src/lambda/ip_monitor.py: one invocation of      *)
(* handler(event, context).  Every call to the inventory provider (ec2)    *)
(* or to the metrics sink (cloudwatch) is one action, together with the    *)
(* code around it that makes no call (the source lines are given at each   *)
(* action).  A call either returns a response or raises; a response the    *)
(* code cannot read (no 'Vpcs' entry, a malformed CidrBlock) raises inside *)
(* the same try and is the raising action of that call.                    *)
(*                                                                         *)
(* Representation:                                                         *)
(*  - a CIDR block is [address, prefixlen]; num_addresses is               *)
(*    2^(32 - prefixlen), as ipaddress.IPv4Network computes it;            *)
(*  - a percentage (a Python float) is an exact rational [num, den] in     *)
(*    lowest terms with den > 0; the integer 0 is [num |-> 0, den |-> 1];  *)
(*  - gateway identifiers are sequences of characters, so that             *)
(*    str.startswith is computed and not assumed;                          *)
(*  - the report's timestamp and the printed log lines are left out.       *)
(***************************************************************************)
EXTENDS Integers, Sequences, FiniteSets, TLC

VARIABLES
    pc,                  \* position of handler: see PcValues
    environ,             \* os.environ, a record with or without VPC_ID
    event,               \* the invocation payload
    vpc_id, vpc_cidr, total_ips,
    subnet_details, used_ips, available_ips, utilization_percent,
    eni_count, metrics,
    idx,                 \* position of the loop of line 69 in subnet_details
    result,              \* the value handler returned
    subnetPages,         \* the pages the provider holds for describe_subnets
    eniPages,            \* the pages it holds for describe_network_interfaces
    calls,               \* history: the provider and sink calls made, in order
    putCalls             \* history: the MetricData of each put_metric_data call

vars == << pc, environ, event, vpc_id, vpc_cidr, total_ips, subnet_details,
           used_ips, available_ips, utilization_percent, eni_count, metrics,
           idx, result, subnetPages, eniPages, calls, putCalls >>

PcValues == { "start", "describe_vpcs", "describe_subnets",
              "describe_network_interfaces", "subnet_loop",
              "returned", "raised" }

-----------------------------------------------------------------------------
(* Bounds of the model *)

\* longest inventory whose subnets vary independently
MaxSubnets == 2
\* most network interfaces the provider holds
MaxEnis == 2
\* size of the uniform large inventory (and of the one twice as large)
BatchSubnets == 5

-----------------------------------------------------------------------------
(* Program constants *)

\* "AWS reserves 5 IPs per subnet"
Reserved == 5

DefaultRoute == "0.0.0.0/0"
IgwPrefix == << "i", "g", "w", "-" >>
Namespace == "Custom/IPMonitoring"

-----------------------------------------------------------------------------
(* Arithmetic helpers *)

RECURSIVE Pow2(_)
Pow2(n) == IF n <= 0 THEN 1 ELSE 2 * Pow2(n - 1)

\* ipaddress.IPv4Network(cidr).num_addresses
num_addresses(cidr) == Pow2(32 - cidr.prefixlen)

Abs(x) == IF x < 0 THEN -x ELSE x

RECURSIVE Gcd(_, _)
Gcd(a, b) == IF b = 0 THEN a ELSE Gcd(b, a % b)

\* the rational n / d (d # 0) in lowest terms with a positive denominator
Frac(n, d) ==
    LET g == Gcd(Abs(n), Abs(d))
        s == IF d < 0 THEN -1 ELSE 1
    IN  [num |-> (s * n) \div g, den |-> (s * d) \div g]

Zero == [num |-> 0, den |-> 1]

\* Python's round(x, 2) of the rational x: the nearest hundredth, ties to even
round2(x) ==
    LET n  == x.num * 100
        fl == n \div x.den
        r2 == 2 * (n - fl * x.den)
        k  == IF r2 < x.den THEN fl
              ELSE IF r2 > x.den THEN fl + 1
              ELSE IF fl % 2 = 0 THEN fl ELSE fl + 1
    IN  Frac(k, 100)

\* str.startswith on sequences of characters
startswith(s, prefix) ==
    /\ Len(s) >= Len(prefix)
    /\ SubSeq(s, 1, Len(prefix)) = prefix

-----------------------------------------------------------------------------
(* The utilization computation, lines 34-56 *)

\* Mutant of Utilization: the guard tests "total != 0" instead of "total > 0"
UtilizationUnguarded(used, total) ==
    IF total # 0 THEN Frac(used * 100, total) ELSE Zero

\* "(used / total) * 100 if total > 0 else 0", lines 52 and 56
Utilization(used, total) ==
    IF total > 0 THEN Frac(used * 100, total) ELSE Zero

\* one iteration of the loop of line 34: the detail record of a subnet
SubnetDetail(subnet) ==
    LET subnet_total == num_addresses(subnet.CidrBlock) - Reserved
        subnet_used  == subnet_total - subnet.AvailableIpAddressCount
    IN  [ SubnetId           |-> subnet.SubnetId,
          CIDR               |-> subnet.CidrBlock,
          TotalIPs           |-> subnet_total,
          UsedIPs            |-> subnet_used,
          AvailableIPs       |-> subnet.AvailableIpAddressCount,
          UtilizationPercent |-> Utilization(subnet_used, subnet_total) ]

SubnetDetails(subnets) ==
    [ i \in 1..Len(subnets) |-> SubnetDetail(subnets[i]) ]

\* "used_ips += subnet_used" over the loop
RECURSIVE SumUsed(_)
SumUsed(details) ==
    IF details = << >> THEN 0
    ELSE details[1].UsedIPs + SumUsed(Tail(details))

-----------------------------------------------------------------------------
(* The exposure type, lines 73-91 *)

\* Mutant of is_igw_route: the gateway's prefix is not tested
is_default_gateway_route(route) ==
    /\ "DestinationCidrBlock" \in DOMAIN route
    /\ route.DestinationCidrBlock = DefaultRoute
    /\ "GatewayId" \in DOMAIN route

\* the condition of line 84
is_igw_route(route) ==
    /\ "DestinationCidrBlock" \in DOMAIN route
    /\ route.DestinationCidrBlock = DefaultRoute
    /\ "GatewayId" \in DOMAIN route
    /\ startswith(route.GatewayId, IgwPrefix)

\* the inner loop of line 83: stops at the first matching route
RECURSIVE ScanRoutes(_)
ScanRoutes(routes) ==
    IF routes = << >> THEN FALSE
    ELSE IF is_igw_route(routes[1]) THEN TRUE
    ELSE ScanRoutes(Tail(routes))

\* the outer loop of line 82: stops at the first table with a matching route
RECURSIVE ScanTables(_)
ScanTables(tables) ==
    IF tables = << >> THEN FALSE
    ELSE IF ScanRoutes(tables[1].Routes) THEN TRUE
    ELSE ScanTables(Tail(tables))

\* lines 73-91: "private" unless the lookup returned and a route matched
SubnetType(lookup) ==
    IF lookup.raises THEN "private"
    ELSE IF ScanTables(lookup.RouteTables) THEN "public"
    ELSE "private"

-----------------------------------------------------------------------------
(* The metric points, lines 94-173 *)

Dimension(name, value) == [Name |-> name, Value |-> value]

MetricPoint(name, value, unit, dimensions) ==
    [MetricName |-> name, Value |-> value, Unit |-> unit, Dimensions |-> dimensions]

\* Mutant of subnet_metrics: the points carry no SubnetType dimension
subnet_metrics_untyped(vpc, subnet_detail, subnet_type) ==
    LET dims == << Dimension("VpcId", vpc),
                   Dimension("SubnetId", subnet_detail.SubnetId) >>
    IN  << MetricPoint("SubnetTotalIPs", subnet_detail.TotalIPs, "Count", dims),
           MetricPoint("SubnetUsedIPs", subnet_detail.UsedIPs, "Count", dims),
           MetricPoint("SubnetAvailableIPs", subnet_detail.AvailableIPs, "Count", dims),
           MetricPoint("SubnetIPUtilizationPercent",
                       subnet_detail.UtilizationPercent, "Percent", dims) >>

\* lines 94-135
subnet_metrics(vpc, subnet_detail, subnet_type) ==
    LET dims == << Dimension("VpcId", vpc),
                   Dimension("SubnetId", subnet_detail.SubnetId),
                   Dimension("SubnetType", subnet_type) >>
    IN  << MetricPoint("SubnetTotalIPs", subnet_detail.TotalIPs, "Count", dims),
           MetricPoint("SubnetUsedIPs", subnet_detail.UsedIPs, "Count", dims),
           MetricPoint("SubnetAvailableIPs", subnet_detail.AvailableIPs, "Count", dims),
           MetricPoint("SubnetIPUtilizationPercent",
                       subnet_detail.UtilizationPercent, "Percent", dims) >>

\* lines 142-173
vpc_metrics(vpc, total, used, available, utilization, enis) ==
    LET dims == << Dimension("VpcId", vpc) >>
    IN  << MetricPoint("TotalIPs", total, "Count", dims),
           MetricPoint("UsedIPs", used, "Count", dims),
           MetricPoint("AvailableIPs", available, "Count", dims),
           MetricPoint("IPUtilizationPercent", utilization, "Percent", dims),
           MetricPoint("ENICount", enis, "Count", dims) >>

-----------------------------------------------------------------------------
(* The provider: what it can hold when handler asks *)

Chars(a, b, c, d, e) == << a, b, c, d, e >>

IgwA   == Chars("i", "g", "w", "-", "a")
VgwA   == Chars("v", "g", "w", "-", "a")
NatA   == Chars("n", "a", "t", "-", "a")
Local  == Chars("l", "o", "c", "a", "l")

LocalRoute == [DestinationCidrBlock |-> "10.0.0.0/16", GatewayId |-> Local]

\* what describe_route_tables does for one subnet
Routings ==
    { \* the lookup raises
      [raises |-> TRUE, RouteTables |-> << >>],
      \* no table is associated with the subnet
      [raises |-> FALSE, RouteTables |-> << >>],
      \* the second table holds a default route to an internet gateway
      [raises |-> FALSE, RouteTables |->
         << [Routes |-> << LocalRoute >>],
            [Routes |-> << LocalRoute,
                           [DestinationCidrBlock |-> DefaultRoute, GatewayId |-> IgwA] >>] >>],
      \* default routes to a virtual private gateway and to a NAT gateway,
      \* and internet gateway routes that are not the IPv4 default route
      [raises |-> FALSE, RouteTables |->
         << [Routes |-> << [DestinationCidrBlock |-> DefaultRoute, GatewayId |-> VgwA],
                           [DestinationIpv6CidrBlock |-> "::/0", GatewayId |-> IgwA],
                           [DestinationCidrBlock |-> DefaultRoute, NatGatewayId |-> NatA] >>],
            [Routes |-> << [DestinationCidrBlock |-> "192.168.0.0/16", GatewayId |-> IgwA] >>] >>] }

PublicRouting ==
    [raises |-> FALSE, RouteTables |->
       << [Routes |-> << LocalRoute,
                         [DestinationCidrBlock |-> DefaultRoute, GatewayId |-> IgwA] >>] >>]

\* prefix length and spare-capacity count of a subnet: 11 addresses of which
\* 4 are free; 11 addresses and a stale count of 12; a /30, 4 - 5 = -1
Kinds ==
    { [prefixlen |-> 28, available |-> 4],
      [prefixlen |-> 28, available |-> 12],
      [prefixlen |-> 30, available |-> 0] }

Profiles == { [kind |-> k, routing |-> r] : k \in Kinds, r \in Routings }

UniformProfile == [kind |-> [prefixlen |-> 28, available |-> 4], routing |-> PublicRouting]

SubnetIdOf(i) == << "subnet", i >>

\* the provider's record of the i-th subnet; Routing is what it answers to
\* describe_route_tables for that subnet
ProviderSubnet(i, profile) ==
    [ SubnetId                |-> SubnetIdOf(i),
      CidrBlock               |-> [address |-> << 10, 0, i, 0 >>,
                                   prefixlen |-> profile.kind.prefixlen],
      AvailableIpAddressCount |-> profile.kind.available,
      Routing                 |-> profile.routing ]

Inventories ==
    UNION { { [ i \in 1..n |-> ProviderSubnet(i, f[i]) ] : f \in [1..n -> Profiles] }
            : n \in 0..MaxSubnets }
    \cup { [ i \in 1..n |-> ProviderSubnet(i, UniformProfile) ]
            : n \in {BatchSubnets, 2 * BatchSubnets} }

EniInventories ==
    { [ i \in 1..n |-> [NetworkInterfaceId |-> << "eni", i >>] ] : n \in 0..MaxEnis }

\* most items the provider puts on one page of a response
PageSizes == { 1, 1000 }

\* the pages of a result set: every page but the last is full
RECURSIVE Pages(_, _)
Pages(items, size) ==
    IF Len(items) <= size THEN << items >>
    ELSE << SubSeq(items, 1, size) >> \o Pages(SubSeq(items, size + 1, Len(items)), size)

RECURSIVE Flatten(_)
Flatten(pages) ==
    IF pages = << >> THEN << >> ELSE pages[1] \o Flatten(Tail(pages))

\* the networks the provider knows, with the address ranges they can have
KnownVpcs == { "vpc-1" }
VpcCidrs  == { [address |-> << 10, 0, 0, 0 >>, prefixlen |-> 24],
               [address |-> << 10, 0, 0, 0 >>, prefixlen |-> 30] }

Environs ==
    { [AWS_REGION |-> "eu-west-1"],
      [AWS_REGION |-> "eu-west-1", VPC_ID |-> ""],
      [AWS_REGION |-> "eu-west-1", VPC_ID |-> "vpc-1"],
      [AWS_REGION |-> "eu-west-1", VPC_ID |-> "vpc-9"] }

ScheduledEvent == [source |-> "aws.events", detailType |-> "Scheduled Event"]

InterfaceChangeEvent ==
    [ source     |-> "aws.ec2",
      detailType |-> "AWS API Call via CloudTrail",
      detail     |-> [requestParameters |-> [networkInterfaceId |-> << "eni", 1 >>]] ]

Events == { ScheduledEvent, InterfaceChangeEvent }

\* the subnet record as describe_subnets returns it
SubnetRecord(p) ==
    [ SubnetId                |-> p.SubnetId,
      CidrBlock               |-> p.CidrBlock,
      AvailableIpAddressCount |-> p.AvailableIpAddressCount ]

\* the response to one call without a continuation token: the first page
FirstPage(pages) == pages[1]

\* what describe_route_tables does for the subnet with this identifier
RoutingOf(subnet_id) ==
    LET all == Flatten(subnetPages)
        i   == CHOOSE j \in 1..Len(all) : all[j].SubnetId = subnet_id
    IN  all[i].Routing

-----------------------------------------------------------------------------
(* handler *)

NoResult == [statusCode |-> 0]

Call(api, target, ok) == [api |-> api, target |-> target, ok |-> ok]

\* lines 202-209
ErrorResult(api) ==
    [statusCode |-> 500, body |-> [error |-> << "Error in IP monitoring: ", api >>]]

\* lines 183-200
SuccessResult(report) == [statusCode |-> 200, body |-> report]

Init ==
    /\ pc = "start"
    /\ environ \in Environs
    /\ event \in Events
    /\ vpc_id = ""
    /\ vpc_cidr = [address |-> << 0, 0, 0, 0 >>, prefixlen |-> 32]
    /\ total_ips = 0
    /\ subnet_details = << >>
    /\ used_ips = 0
    /\ available_ips = 0
    /\ utilization_percent = Zero
    /\ eni_count = 0
    /\ metrics = << >>
    /\ idx = 1
    /\ result = NoResult
    /\ subnetPages = << << >> >>
    /\ eniPages = << << >> >>
    /\ calls = << >>
    /\ putCalls = << >>

\* lines 11-14, VPC_ID is set
ReadEnv ==
    /\ pc = "start"
    /\ "VPC_ID" \in DOMAIN environ
    /\ vpc_id' = environ.VPC_ID
    /\ pc' = "describe_vpcs"
    /\ UNCHANGED << environ, event, vpc_cidr, total_ips, subnet_details, used_ips,
                    available_ips, utilization_percent, eni_count, metrics, idx,
                    result, subnetPages, eniPages, calls, putCalls >>

\* line 14, VPC_ID is not set: the KeyError is raised before the try of
\* line 16 is entered, and leaves handler
ReadEnvKeyError ==
    /\ pc = "start"
    /\ "VPC_ID" \notin DOMAIN environ
    /\ pc' = "raised"
    /\ UNCHANGED << environ, event, vpc_id, vpc_cidr, total_ips, subnet_details,
                    used_ips, available_ips, utilization_percent, eni_count,
                    metrics, idx, result, subnetPages, eniPages, calls, putCalls >>

\* lines 202-209: an exception raised inside the try
Fail(api, target) ==
    /\ calls' = Append(calls, Call(api, target, FALSE))
    /\ result' = ErrorResult(api)
    /\ pc' = "returned"

\* lines 17-24
DescribeVpcs ==
    /\ pc = "describe_vpcs"
    /\ vpc_id \in KnownVpcs
    /\ \E cidr \in VpcCidrs :
          /\ vpc_cidr' = cidr
          /\ total_ips' = num_addresses(cidr) - Reserved
    /\ calls' = Append(calls, Call("describe_vpcs", vpc_id, TRUE))
    /\ pc' = "describe_subnets"
    /\ UNCHANGED << environ, event, vpc_id, subnet_details, used_ips, available_ips,
                    utilization_percent, eni_count, metrics, idx, result,
                    subnetPages, eniPages, putCalls >>

\* line 18 raises: the provider fails, or does not know the network
DescribeVpcsRaises ==
    /\ pc = "describe_vpcs"
    /\ Fail("describe_vpcs", vpc_id)
    /\ UNCHANGED << environ, event, vpc_id, vpc_cidr, total_ips, subnet_details,
                    used_ips, available_ips, utilization_percent, eni_count,
                    metrics, idx, subnetPages, eniPages, putCalls >>

\* lines 26-56
DescribeSubnets ==
    /\ pc = "describe_subnets"
    /\ \E inventory \in Inventories, size \in PageSizes :
          LET pages   == Pages(inventory, size)
              subnets == [ i \in 1..Len(FirstPage(pages)) |->
                             SubnetRecord(FirstPage(pages)[i]) ]
              details == SubnetDetails(subnets)
              used    == SumUsed(details)
          IN  /\ subnetPages' = pages
              /\ subnet_details' = details
              /\ used_ips' = used
              /\ available_ips' = total_ips - used
              /\ utilization_percent' = Utilization(used, total_ips)
    /\ calls' = Append(calls, Call("describe_subnets", vpc_id, TRUE))
    /\ pc' = "describe_network_interfaces"
    /\ UNCHANGED << environ, event, vpc_id, vpc_cidr, total_ips, eni_count, metrics,
                    idx, result, eniPages, putCalls >>

\* line 27 raises
DescribeSubnetsRaises ==
    /\ pc = "describe_subnets"
    /\ Fail("describe_subnets", vpc_id)
    /\ UNCHANGED << environ, event, vpc_id, vpc_cidr, total_ips, subnet_details,
                    used_ips, available_ips, utilization_percent, eni_count,
                    metrics, idx, subnetPages, eniPages, putCalls >>

\* lines 58-66
DescribeNetworkInterfaces ==
    /\ pc = "describe_network_interfaces"
    /\ \E enis \in EniInventories, size \in PageSizes :
          /\ eniPages' = Pages(enis, size)
          /\ eni_count' = Len(FirstPage(Pages(enis, size)))
    /\ metrics' = << >>
    /\ idx' = 1
    /\ calls' = Append(calls, Call("describe_network_interfaces", vpc_id, TRUE))
    /\ pc' = "subnet_loop"
    /\ UNCHANGED << environ, event, vpc_id, vpc_cidr, total_ips, subnet_details,
                    used_ips, available_ips, utilization_percent, result,
                    subnetPages, putCalls >>

\* line 59 raises
DescribeNetworkInterfacesRaises ==
    /\ pc = "describe_network_interfaces"
    /\ Fail("describe_network_interfaces", vpc_id)
    /\ UNCHANGED << environ, event, vpc_id, vpc_cidr, total_ips, subnet_details,
                    used_ips, available_ips, utilization_percent, eni_count,
                    metrics, idx, subnetPages, eniPages, putCalls >>

\* lines 69-139: one iteration of the loop over subnet_details
SubnetIteration(lookup) ==
    LET subnet_detail == subnet_details[idx]
        subnet_type   == SubnetType(lookup)
    IN  /\ metrics' = metrics \o subnet_metrics(vpc_id, subnet_detail, subnet_type)
        /\ subnet_details' =
              [ subnet_details EXCEPT ![idx] =
                  [ SubnetId           |-> subnet_detail.SubnetId,
                    CIDR               |-> subnet_detail.CIDR,
                    TotalIPs           |-> subnet_detail.TotalIPs,
                    UsedIPs            |-> subnet_detail.UsedIPs,
                    AvailableIPs       |-> subnet_detail.AvailableIPs,
                    UtilizationPercent |-> subnet_detail.UtilizationPercent,
                    SubnetType         |-> subnet_type ] ]
        /\ calls' = Append(calls, Call("describe_route_tables",
                                       subnet_detail.SubnetId, ~lookup.raises))
        /\ idx' = idx + 1

\* lines 69-139, describe_route_tables returns
DescribeRouteTables ==
    /\ pc = "subnet_loop"
    /\ idx <= Len(subnet_details)
    /\ ~RoutingOf(subnet_details[idx].SubnetId).raises
    /\ SubnetIteration(RoutingOf(subnet_details[idx].SubnetId))
    /\ UNCHANGED << pc, environ, event, vpc_id, vpc_cidr, total_ips, used_ips,
                    available_ips, utilization_percent, eni_count, result,
                    subnetPages, eniPages, putCalls >>

\* lines 69-139, describe_route_tables raises: caught at line 89
DescribeRouteTablesRaises ==
    /\ pc = "subnet_loop"
    /\ idx <= Len(subnet_details)
    /\ RoutingOf(subnet_details[idx].SubnetId).raises
    /\ SubnetIteration(RoutingOf(subnet_details[idx].SubnetId))
    /\ UNCHANGED << pc, environ, event, vpc_id, vpc_cidr, total_ips, used_ips,
                    available_ips, utilization_percent, eni_count, result,
                    subnetPages, eniPages, putCalls >>

\* lines 141-174: the points of the network follow those of the subnets
AllMetrics ==
    metrics \o vpc_metrics(vpc_id, total_ips, used_ips, available_ips,
                           utilization_percent, eni_count)

\* lines 183-193
Report ==
    [ vpc_id              |-> vpc_id,
      vpc_cidr            |-> vpc_cidr,
      total_ips           |-> total_ips,
      used_ips            |-> used_ips,
      available_ips       |-> available_ips,
      utilization_percent |-> round2(utilization_percent),
      eni_count           |-> eni_count,
      subnet_details      |-> subnet_details ]

\* lines 141-200: the one call of put_metric_data returns
PutMetricData ==
    /\ pc = "subnet_loop"
    /\ idx > Len(subnet_details)
    /\ metrics' = AllMetrics
    /\ putCalls' = Append(putCalls, [Namespace |-> Namespace, MetricData |-> AllMetrics])
    /\ calls' = Append(calls, Call("put_metric_data", Namespace, TRUE))
    /\ result' = SuccessResult(Report)
    /\ pc' = "returned"
    /\ UNCHANGED << environ, event, vpc_id, vpc_cidr, total_ips, subnet_details,
                    used_ips, available_ips, utilization_percent, eni_count, idx,
                    subnetPages, eniPages >>

\* Mutant of PutMetricDataRaises: the exception is swallowed and the run
\* goes on to return its report
PutMetricDataRaisesSwallowed ==
    /\ pc = "subnet_loop"
    /\ idx > Len(subnet_details)
    /\ metrics' = AllMetrics
    /\ putCalls' = Append(putCalls, [Namespace |-> Namespace, MetricData |-> AllMetrics])
    /\ calls' = Append(calls, Call("put_metric_data", Namespace, FALSE))
    /\ result' = SuccessResult(Report)
    /\ pc' = "returned"
    /\ UNCHANGED << environ, event, vpc_id, vpc_cidr, total_ips, subnet_details,
                    used_ips, available_ips, utilization_percent, eni_count, idx,
                    subnetPages, eniPages >>

\* lines 141-180 and 202-209: put_metric_data raises
PutMetricDataRaises ==
    /\ pc = "subnet_loop"
    /\ idx > Len(subnet_details)
    /\ metrics' = AllMetrics
    /\ putCalls' = Append(putCalls, [Namespace |-> Namespace, MetricData |-> AllMetrics])
    /\ Fail("put_metric_data", Namespace)
    /\ UNCHANGED << environ, event, vpc_id, vpc_cidr, total_ips, subnet_details,
                    used_ips, available_ips, utilization_percent, eni_count, idx,
                    subnetPages, eniPages >>

Next ==
    \/ ReadEnv
    \/ ReadEnvKeyError
    \/ DescribeVpcs
    \/ DescribeVpcsRaises
    \/ DescribeSubnets
    \/ DescribeSubnetsRaises
    \/ DescribeNetworkInterfaces
    \/ DescribeNetworkInterfacesRaises
    \/ DescribeRouteTables
    \/ DescribeRouteTablesRaises
    \/ PutMetricData
    \/ PutMetricDataRaises

Spec == Init /\ [][Next]_vars

-----------------------------------------------------------------------------
(* Vocabulary of the properties *)

Max(a, b) == IF a >= b THEN a ELSE b

Returned200 == pc = "returned" /\ result.statusCode = 200

Succeeded(api) == \E k \in 1..Len(calls) : calls[k].api = api /\ calls[k].ok

Raised(api) == \E k \in 1..Len(calls) : calls[k].api = api /\ ~calls[k].ok

\* the subnets and interfaces of the network on all pages of the provider
AllSubnets == Flatten(subnetPages)
AllEnis == Flatten(eniPages)

\* the points named so in the list built so far
PointsNamed(name) == { k \in 1..Len(metrics) : metrics[k].MetricName = name }

RECURSIVE SumTotal(_)
SumTotal(details) ==
    IF details = << >> THEN 0
    ELSE details[1].TotalIPs + SumTotal(Tail(details))

RECURSIVE Concat(_)
Concat(puts) ==
    IF puts = << >> THEN << >> ELSE puts[1].MetricData \o Concat(Tail(puts))

\* some route of some associated table is the IPv4 default route and names
\* a gateway whose identifier begins with "igw-"
HasIgwDefaultRoute(lookup) ==
    \E t \in 1..Len(lookup.RouteTables) :
       \E r \in 1..Len(lookup.RouteTables[t].Routes) :
          LET route == lookup.RouteTables[t].Routes[r]
          IN  /\ "DestinationCidrBlock" \in DOMAIN route
              /\ route.DestinationCidrBlock = "0.0.0.0/0"
              /\ "GatewayId" \in DOMAIN route
              /\ Len(route.GatewayId) >= 4
              /\ route.GatewayId[1] = "i" /\ route.GatewayId[2] = "g"
              /\ route.GatewayId[3] = "w" /\ route.GatewayId[4] = "-"

ExpectedType(subnet_id) ==
    IF ~RoutingOf(subnet_id).raises /\ HasIgwDefaultRoute(RoutingOf(subnet_id))
    THEN "public" ELSE "private"

IsInterfaceChangeEvent ==
    /\ event.source = "aws.ec2"
    /\ event.detailType = "AWS API Call via CloudTrail"
    /\ "detail" \in DOMAIN event

DefaultNetworkSet == "VPC_ID" \in DOMAIN environ /\ environ.VPC_ID # ""

-----------------------------------------------------------------------------
(* The claims *)

\* C1: for every subnet the provider returned, the used count is
\* max(total_capacity - available_given, 0); the reported UsedIPs, the
\* SubnetUsedIPs points and the summed used_ips are never negative.
C1_UsedNeverNegative ==
    Succeeded("describe_subnets") =>
       /\ \A i \in 1..Len(subnet_details) :
             LET given == FirstPage(subnetPages)[i]
                 total == num_addresses(given.CidrBlock) - 5
             IN  /\ subnet_details[i].UsedIPs
                       = Max(total - given.AvailableIpAddressCount, 0)
                 /\ subnet_details[i].UsedIPs >= 0
       /\ \A k \in PointsNamed("SubnetUsedIPs") : metrics[k].Value >= 0
       /\ used_ips >= 0

\* C2: the network's total_ips, in the report and in the TotalIPs point, is
\* the sum of the subnets' total capacities; a network without subnets has
\* total, used and available 0 and utilization 0.
C2_TotalIsSumOfSubnets ==
    Succeeded("describe_subnets") =>
       /\ total_ips = SumTotal(subnet_details)
       /\ \A k \in PointsNamed("TotalIPs") : metrics[k].Value = SumTotal(subnet_details)
       /\ Returned200 => result.body.total_ips = SumTotal(subnet_details)
       /\ subnet_details = << >> =>
             /\ total_ips = 0 /\ used_ips = 0 /\ available_ips = 0
             /\ utilization_percent = Zero

\* C3: no exception leaves handler; what it returns has statusCode 200 or 500.
C3_AlwaysStructuredResult ==
    /\ pc # "raised"
    /\ pc = "returned" => result.statusCode \in {200, 500}

\* C4: the N points of a successful run are submitted in ceil(N/20) calls of
\* at most 20 points each, which concatenated in call order give the list.
C4_BatchesOfTwenty ==
    Returned200 =>
       /\ Len(putCalls) = (Len(metrics) + 19) \div 20
       /\ \A c \in 1..Len(putCalls) : Len(putCalls[c].MetricData) <= 20
       /\ Concat(putCalls) = metrics

\* C5: a subnet's exposure type, in its detail record and on its four points,
\* is "public" iff the routing lookup returned a default route to an "igw-"
\* gateway, and "private" otherwise, also when the lookup raises; a lookup
\* that raises does not end the run.
C5_ExposureType ==
    /\ \A i \in 1..Len(subnet_details) :
          /\ ("SubnetType" \in DOMAIN subnet_details[i]) <=> (i < idx)
          /\ i < idx =>
                LET expected == ExpectedType(subnet_details[i].SubnetId)
                IN  /\ subnet_details[i].SubnetType = expected
                    /\ Returned200 =>
                          result.body.subnet_details[i].SubnetType = expected
                    /\ \A j \in 1..4 :
                          /\ Len(metrics[4 * (i - 1) + j].Dimensions) = 3
                          /\ metrics[4 * (i - 1) + j].Dimensions[3]
                                = [Name |-> "SubnetType", Value |-> expected]
    /\ \A k \in 1..Len(calls) :
          (calls[k].api = "describe_route_tables" /\ ~calls[k].ok) =>
             (k < Len(calls) \/ pc = "subnet_loop")

\* a run that returned 200 with a public subnet and a subnet whose lookup raised
C5_Witness ==
    /\ Returned200
    /\ \E i, j \in 1..Len(subnet_details) :
          /\ subnet_details[i].SubnetType = "public"
          /\ RoutingOf(subnet_details[j].SubnetId).raises
          /\ subnet_details[j].SubnetType = "private"

\* C6: every subnet and every interface on every page of the provider is in
\* the report: a detail record per subnet, used_ips over all of them, and
\* the interface count over all pages.
C6_AllPagesRead ==
    /\ Succeeded("describe_subnets") =>
          /\ Len(subnet_details) = Len(AllSubnets)
          /\ \A i \in 1..Len(AllSubnets) :
                i <= Len(subnet_details)
                   /\ subnet_details[i].SubnetId = AllSubnets[i].SubnetId
          /\ used_ips = SumUsed(SubnetDetails(AllSubnets))
    /\ Succeeded("describe_network_interfaces") => eni_count = Len(AllEnis)

\* C7: for a payload that is not an interface-change event, a default network
\* that is set makes the run report exactly that network; one that is absent
\* or empty makes it scan all networks and return a result.
C7_ModeFromDefaultNetwork ==
    ~IsInterfaceChangeEvent =>
       /\ DefaultNetworkSet =>
             /\ pc # "raised"
             /\ Returned200 => result.body.vpc_id = environ.VPC_ID
       /\ ~DefaultNetworkSet =>
             /\ pc # "raised"
             /\ pc = "returned" =>
                   /\ "mode" \in DOMAIN result.body
                   /\ result.body.mode = "all_networks"

\* C8: for subnets s1..sk in provider order the list submitted has 4k + 5
\* points: per subnet the four subnet points with the dimensions (network,
\* subnet, exposure type) and the values of its detail record, then the five
\* network points with the network dimension alone.
C8_MetricPointList ==
    putCalls # << >> =>
       LET m == putCalls[1].MetricData
           k == Len(subnet_details)
           names == << "SubnetTotalIPs", "SubnetUsedIPs", "SubnetAvailableIPs",
                       "SubnetIPUtilizationPercent" >>
           netNames == << "TotalIPs", "UsedIPs", "AvailableIPs",
                          "IPUtilizationPercent", "ENICount" >>
       IN  /\ Len(m) = 4 * k + 5
           /\ \A i \in 1..k :
                 LET d == subnet_details[i]
                     values == << d.TotalIPs, d.UsedIPs, d.AvailableIPs,
                                  d.UtilizationPercent >>
                 IN  /\ d.SubnetId = FirstPage(subnetPages)[i].SubnetId
                     /\ \A j \in 1..4 :
                           /\ m[4 * (i - 1) + j].MetricName = names[j]
                           /\ m[4 * (i - 1) + j].Value = values[j]
                           /\ m[4 * (i - 1) + j].Dimensions
                                 = << [Name |-> "VpcId", Value |-> vpc_id],
                                      [Name |-> "SubnetId", Value |-> d.SubnetId],
                                      [Name |-> "SubnetType", Value |-> d.SubnetType] >>
           /\ \A j \in 1..5 :
                 /\ m[4 * k + j].MetricName = netNames[j]
                 /\ m[4 * k + j].Dimensions = << [Name |-> "VpcId", Value |-> vpc_id] >>

\* a submitted list for two subnets of different exposure types
C8_Witness ==
    /\ putCalls # << >>
    /\ Len(subnet_details) = 2
    /\ Len(putCalls[1].MetricData) = 13
    /\ subnet_details[1].SubnetType # subnet_details[2].SubnetType

\* C9: the utilization of a subnet and of the network is used / total * 100
\* when total > 0 and 0 otherwise, whatever the prefix length.
C9_UtilizationGuard ==
    /\ \A i \in 1..Len(subnet_details) :
          LET d == subnet_details[i]
              u == d.UtilizationPercent
          IN  /\ u.den > 0
              /\ d.TotalIPs > 0 => u.num * d.TotalIPs = d.UsedIPs * 100 * u.den
              /\ d.TotalIPs <= 0 => u = Zero
    /\ Succeeded("describe_subnets") =>
          /\ utilization_percent.den > 0
          /\ total_ips > 0 =>
                utilization_percent.num * total_ips
                   = used_ips * 100 * utilization_percent.den
          /\ total_ips <= 0 => utilization_percent = Zero

\* a subnet of fewer than 5 addresses beside one that is partly used
C9_Witness ==
    \E i, j \in 1..Len(subnet_details) :
       /\ subnet_details[i].TotalIPs <= 0
       /\ subnet_details[i].UsedIPs # 0
       /\ subnet_details[j].TotalIPs > 0
       /\ subnet_details[j].UsedIPs > 0
       /\ subnet_details[j].UtilizationPercent # Zero

\* C10: the sink is called only after the network lookup, the subnet listing
\* and the interface listing succeeded; if one of them raises nothing is
\* submitted and the result is 500; 200 is returned only after a submission
\* of every built point returned, and a submission that raises gives 500.
C10_SinkAfterInventory ==
    /\ putCalls # << >> =>
          /\ Len(calls) >= 4
          /\ calls[1] = Call("describe_vpcs", vpc_id, TRUE)
          /\ calls[2] = Call("describe_subnets", vpc_id, TRUE)
          /\ calls[3] = Call("describe_network_interfaces", vpc_id, TRUE)
          /\ \A k \in 1..Len(calls) :
                calls[k].api = "put_metric_data" <=> k = Len(calls)
    /\ putCalls = << >> => ~Succeeded("put_metric_data") /\ ~Raised("put_metric_data")
    /\ \A api \in {"describe_vpcs", "describe_subnets", "describe_network_interfaces"} :
          Raised(api) =>
             /\ putCalls = << >>
             /\ pc = "returned"
             /\ result.statusCode = 500
    /\ Returned200 =>
          /\ calls[Len(calls)] = Call("put_metric_data", Namespace, TRUE)
          /\ Concat(putCalls) = metrics
          /\ Len(metrics) = 4 * Len(subnet_details) + 5
    /\ Raised("put_metric_data") =>
          /\ pc = "returned"
          /\ result.statusCode = 500

\* a run that returned 200 after submitting the points of a subnet
C10_Witness ==
    /\ Returned200
    /\ Len(subnet_details) >= 1
    /\ Len(putCalls) = 1

====
